---- MODULE Spec2Model ----
(***************************************************************************)
(* Babylon RCT license server (src/index.js, the server that starts at     *)
(* line 461): the license collection, the validate and activate handlers   *)
(* as sequences of store round trips, and the admin handlers.              *)
(*                                                                         *)
(* A handler that awaits the store is cut at its awaits:                   *)
(*   Start  the request arrives                                            *)
(*   Find   the store evaluates License.findOne (a snapshot of the doc)    *)
(*   Check  the handler's synchronous code between the two awaits          *)
(*   Save   the store applies the update that license.save() sent, and     *)
(*          the handler answers                                            *)
(* POST /api/record-usage is cut the same way at its one await; an admin   *)
(* handler, whose one store call is a single atomic operation, is one      *)
(* step.                                                                   *)
(* Handlers of different requests interleave at these cuts.  A request     *)
(* occupies one of NumProcs slots until its answer is released; at most    *)
(* MaxRequests requests (admin ones included) arrive in a run.             *)
(*                                                                         *)
(* license.save() does not write the document back whole: Mongoose sends   *)
(* the delta of the modified paths.  deviceActivations.push(..) becomes    *)
(* {$push, $inc __v}; element.lastValidation = .. becomes a positional     *)
(* $set whose filter also names the __v that was read (a stale __v makes   *)
(* save() reject with VersionError); currentActivations += 1 becomes a     *)
(* $set of the number computed from the snapshot.                          *)
(*                                                                         *)
(* Time is a clock of abstract ticks; one tick is also the unit that       *)
(* setMonth adds.  metadata and deviceInfo are stored verbatim and never   *)
(* read by a decision, and are left out of the document.                   *)
(***************************************************************************)
EXTENDS Integers, Sequences, FiniteSets, TLC

\* ---------------------------------------------------------------- bounds
NumProcs == 2
MaxTime == 2
MaxRequests == 4

Procs == 1..NumProcs
Keys == {"K1"}
Devices == {"D1", "D2"}

\* ------------------------------------------------------ request values
\* JavaScript values that reach the handlers in req.body.
Undefined == [t |-> "undefined"]
Num(n) == [t |-> "number", n |-> n]
Str(s) == [t |-> "string", s |-> s]
NaN == [t |-> "NaN"]

\* Strings are sequences of one-character strings.
Digits == {"0", "1", "2", "3", "4", "5", "6", "7", "8", "9"}

DigitVal(c) ==
  CASE c = "0" -> 0 [] c = "1" -> 1 [] c = "2" -> 2 [] c = "3" -> 3
    [] c = "4" -> 4 [] c = "5" -> 5 [] c = "6" -> 6 [] c = "7" -> 7
    [] c = "8" -> 8 [] c = "9" -> 9

RECURSIVE TrimStart(_)
TrimStart(s) == IF s # <<>> /\ Head(s) = " " THEN TrimStart(Tail(s)) ELSE s

RECURSIVE TrimEnd(_)
TrimEnd(s) ==
  IF s # <<>> /\ s[Len(s)] = " " THEN TrimEnd(SubSeq(s, 1, Len(s) - 1)) ELSE s

\* String.prototype.trim
Trim(s) == TrimEnd(TrimStart(s))

RECURSIVE DigitPrefix(_, _, _)
\* the value of the longest prefix of digits of s, NaN when it is empty
DigitPrefix(s, acc, seen) ==
  IF s # <<>> /\ Head(s) \in Digits
    THEN DigitPrefix(Tail(s), 10 * acc + DigitVal(Head(s)), TRUE)
    ELSE IF seen THEN Num(acc) ELSE NaN

\* parseInt(v) for the values above
ParseInt(v) ==
  CASE v.t = "number" -> v
    [] v.t = "string" ->
         LET s == TrimStart(v.s) IN
         IF s # <<>> /\ Head(s) = "-"
           THEN LET r == DigitPrefix(Tail(s), 0, FALSE) IN
                IF r = NaN THEN NaN ELSE Num(0 - r.n)
           ELSE DigitPrefix(s, 0, FALSE)
    [] OTHER -> NaN

\* !v
Falsy(v) ==
  \/ v.t \in {"undefined", "NaN"}
  \/ v.t = "number" /\ v.n = 0
  \/ v.t = "string" /\ v.s = <<>>

\* parseInt(v) || d
ParseIntOr(v, d) == IF Falsy(ParseInt(v)) THEN d ELSE ParseInt(v).n

\* const { x = d } = req.body
Default(v, d) == IF v = Undefined THEN d ELSE v

\* ------------------------------------------------------------ the store
\* NewLicense that counts an activation from the start
NewLicenseCounted(key, email, name, expiry, max, t) ==
  [licenseKey |-> key, customerEmail |-> email, customerName |-> name,
   purchaseDate |-> t, expiryDate |-> expiry, isActive |-> TRUE,
   maxActivations |-> max, currentActivations |-> 1,
   deviceActivations |-> <<>>, v |-> 0]

\* licenseSchema: one document of the licenses collection.  _id is the
\* document's position in the collection; v is Mongoose's version key __v.
NewLicense(key, email, name, expiry, max, t) ==
  [licenseKey |-> key, customerEmail |-> email, customerName |-> name,
   purchaseDate |-> t, expiryDate |-> expiry, isActive |-> TRUE,
   maxActivations |-> max, currentActivations |-> 0,
   deviceActivations |-> <<>>, v |-> 0]

\* one element of deviceActivations
NewActivation(dev, t) ==
  [deviceId |-> dev, activationDate |-> t, lastValidation |-> t]

Null == [null |-> TRUE]

VARIABLES
  licenses,   \* the licenses collection, in insertion order
  now,        \* the clock that new Date() reads
  pc,         \* per request slot: "idle", "find", "check", "save", "done"
  req,        \* per request slot: the request being handled
  snap,       \* per request slot: what findOne returned (the handler's `license`)
  pend,       \* per request slot: the update that license.save() sent
  resp,       \* per request slot: the response sent
  seen,       \* per request slot: what held in the store when the request arrived
  hist,       \* per (key, device): how the completed activate calls ended
  started,    \* number of requests received so far
  adminResp,  \* the response to the last admin request
  adminReq,   \* the last admin request
  usageReq,   \* the record-usage request being handled, or last handled
  usage,      \* the usages collection, in insertion order
  usageResp   \* the response to the last record-usage request

vars == <<licenses, now, pc, req, snap, pend, resp, seen, hist, started, adminResp, adminReq, usageReq, usage, usageResp>>

Ids == 1..Len(licenses)

\* the documents a filter on licenseKey matches
IdsOfKey(docs, key) == {i \in 1..Len(docs) : docs[i].licenseKey = key}

Min(S) == CHOOSE x \in S : \A y \in S : x <= y

\* License.findOne({ licenseKey: key }): the _id of the first match, 0 for none
FindOneByKey(docs, key) ==
  IF IdsOfKey(docs, key) = {} THEN 0 ELSE Min(IdsOfKey(docs, key))

\* FindOneActive without the isActive filter
FindOneAnyStatus(docs, key) == FindOneByKey(docs, key)

\* License.findOne({ licenseKey: key, isActive: true })
FindOneActive(docs, key) ==
  LET m == {i \in IdsOfKey(docs, key) : docs[i].isActive} IN
  IF m = {} THEN 0 ELSE Min(m)

\* deviceActivations.find(a => a.deviceId === dev): the position of the
\* first match, 0 for undefined
FindActivation(acts, dev) ==
  LET m == {i \in 1..Len(acts) : acts[i].deviceId = dev} IN
  IF m = {} THEN 0 ELSE Min(m)

\* IsExpired with >= for >
IsExpiredInclusive(t, doc) == t >= doc.expiryDate

\* new Date() > license.expiryDate
IsExpired(t, doc) == t > doc.expiryDate

\* LimitReached with > for >=
LimitReachedOffByOne(doc) == doc.currentActivations > doc.maxActivations

\* license.currentActivations >= license.maxActivations
LimitReached(doc) == doc.currentActivations >= doc.maxActivations

\* ------------------------------------------------------------ responses
\* res.json / res.status(500).json of the two public handlers; msg names the
\* message string of the response.
Reply(status, valid, msg) == [status |-> status, valid |-> valid, msg |-> msg]

\* the response of a first activation, with activations_used and activations_total
ActivatedReply(used, total) ==
  [status |-> 200, valid |-> TRUE, msg |-> "Activated", used |-> used, total |-> total]

\* ServerError that looks like a domain outcome
ServerErrorAsNotFound == Reply(200, FALSE, "NotFoundOrInactive")

\* the catch of the two public handlers: res.status(500).json({ valid: false })
ServerError == Reply(500, FALSE, "ServerError")

NoReply == [status |-> 0, valid |-> FALSE, msg |-> "None"]

\* what the synchronous part of a handler ends with: a response, or a save()
Respond(r) == [do |-> "respond", reply |-> r]
SaveThen(u, r) == [do |-> "save", upd |-> u, reply |-> r]

\* Touch that stores the epoch
TouchEpoch(i, t) == [op |-> "touch", idx |-> i, t |-> 0]

\* element.lastValidation = new Date(): a positional $set, filtered on __v
Touch(i, t) == [op |-> "touch", idx |-> i, t |-> t]

\* deviceActivations.push({..}); currentActivations += 1: a $push of the new
\* element, a $set of the counter computed from the snapshot and an $inc of __v
Push(doc, dev, t) ==
  [op |-> "push", act |-> NewActivation(dev, t), cur |-> doc.currentActivations + 1]

\* ValidatePlan that records the validation of an expired license
ValidatePlanStampsExpired(doc, dev, t) ==
  IF doc = Null THEN Respond(Reply(200, FALSE, "NotFoundOrInactive"))
  ELSE LET i == FindActivation(doc.deviceActivations, dev) IN
       IF IsExpired(t, doc)
         THEN (IF i = 0 THEN Respond(Reply(200, FALSE, "Expired"))
               ELSE SaveThen(Touch(i, t), Reply(200, FALSE, "Expired")))
       ELSE IF i = 0 THEN Respond(Reply(200, FALSE, "DeviceNotActivated"))
       ELSE SaveThen(Touch(i, t), Reply(200, TRUE, "Valid"))

\* ValidatePlan that activates a device it does not find
ValidatePlanAutoActivate(doc, dev, t) ==
  IF doc = Null THEN Respond(Reply(200, FALSE, "NotFoundOrInactive"))
  ELSE IF IsExpired(t, doc) THEN Respond(Reply(200, FALSE, "Expired"))
  ELSE LET i == FindActivation(doc.deviceActivations, dev) IN
       IF i = 0 THEN SaveThen(Push(doc, dev, t), Reply(200, TRUE, "Valid"))
       ELSE SaveThen(Touch(i, t), Reply(200, TRUE, "Valid"))

\* POST /api/validate-license, from the result of findOne to save() or a response
ValidatePlan(doc, dev, t) ==
  IF doc = Null THEN Respond(Reply(200, FALSE, "NotFoundOrInactive"))
  ELSE IF IsExpired(t, doc) THEN Respond(Reply(200, FALSE, "Expired"))
  ELSE LET i == FindActivation(doc.deviceActivations, dev) IN
       IF i = 0 THEN Respond(Reply(200, FALSE, "DeviceNotActivated"))
       ELSE SaveThen(Touch(i, t), Reply(200, TRUE, "Valid"))

\* ActivatePlan with the capacity check ahead of the device lookup
ActivatePlanCapacityFirst(doc, dev, t) ==
  IF doc = Null THEN Respond(Reply(200, FALSE, "InvalidKey"))
  ELSE IF IsExpired(t, doc) THEN Respond(Reply(200, FALSE, "Expired"))
  ELSE IF LimitReached(doc) THEN Respond(Reply(200, FALSE, "LimitReached"))
  ELSE LET i == FindActivation(doc.deviceActivations, dev) IN
       IF i # 0 THEN SaveThen(Touch(i, t), Reply(200, TRUE, "AlreadyActivated"))
       ELSE SaveThen(Push(doc, dev, t),
                     ActivatedReply(doc.currentActivations + 1, doc.maxActivations))

\* ActivatePlan without the device lookup
ActivatePlanNoLookup(doc, dev, t) ==
  IF doc = Null THEN Respond(Reply(200, FALSE, "InvalidKey"))
  ELSE IF IsExpired(t, doc) THEN Respond(Reply(200, FALSE, "Expired"))
  ELSE IF LimitReached(doc) THEN Respond(Reply(200, FALSE, "LimitReached"))
  ELSE SaveThen(Push(doc, dev, t),
                ActivatedReply(doc.currentActivations + 1, doc.maxActivations))

\* POST /api/activate-license, from the result of findOne to save() or a response
ActivatePlan(doc, dev, t) ==
  IF doc = Null THEN Respond(Reply(200, FALSE, "InvalidKey"))
  ELSE IF IsExpired(t, doc) THEN Respond(Reply(200, FALSE, "Expired"))
  ELSE LET i == FindActivation(doc.deviceActivations, dev) IN
       IF i # 0 THEN SaveThen(Touch(i, t), Reply(200, TRUE, "AlreadyActivated"))
       ELSE IF LimitReached(doc) THEN Respond(Reply(200, FALSE, "LimitReached"))
       ELSE SaveThen(Push(doc, dev, t),
                     ActivatedReply(doc.currentActivations + 1, doc.maxActivations))

Plan(r, doc, t) ==
  IF r.op = "validate" THEN ValidatePlan(doc, r.dev, t) ELSE ActivatePlan(doc, r.dev, t)

\* license.save(): does the update's filter match the stored document?  The
\* filter is {_id}, and {_id, __v} for a positional $set.
SaveMatches(doc, readV, u) == u.op = "push" \/ doc.v = readV

\* SaveApplied that writes the activation list back as the handler built it
\* from an empty list
SaveAppliedOverwrite(doc, u) ==
  IF u.op = "touch"
    THEN [doc EXCEPT !.deviceActivations[u.idx].lastValidation = u.t]
    ELSE [doc EXCEPT !.deviceActivations = <<u.act>>,
                     !.currentActivations = u.cur,
                     !.v = @ + 1]

\* SaveApplied that increments the version key on every update
SaveAppliedTouchBumps(doc, u) ==
  IF u.op = "touch"
    THEN [doc EXCEPT !.deviceActivations[u.idx].lastValidation = u.t,
                     !.v = @ + 1]
    ELSE [doc EXCEPT !.deviceActivations = Append(@, u.act),
                     !.currentActivations = u.cur,
                     !.v = @ + 1]

\* license.save(): the stored document after the update
SaveApplied(doc, u) ==
  IF u.op = "touch"
    THEN [doc EXCEPT !.deviceActivations[u.idx].lastValidation = u.t]
    ELSE [doc EXCEPT !.deviceActivations = Append(@, u.act),
                     !.currentActivations = u.cur,
                     !.v = @ + 1]

\* ------------------------------------------------------ public handlers
Ops == {"validate", "activate"}

Pairs == Keys \X Devices

InFlight(p) == pc[p] \in {"find", "check", "save"}

\* What held when the request arrived, for the properties only; no handler
\* reads it.  present, revoked, len, had: the license of that key as stored
\* then (is there one, is it deactivated, how many activation records, has
\* the device one).  again: how earlier activate calls for the same key and
\* device ended.  at: the time the handler's checks ran (set by Check).
Seen(key, dev) ==
  LET i == FindOneByKey(licenses, key) IN
  IF i = 0
    THEN [present |-> FALSE, revoked |-> FALSE, len |-> 0, had |-> FALSE,
          again |-> hist[<<key, dev>>], at |-> 0 - 1]
    ELSE [present |-> TRUE, revoked |-> ~licenses[i].isActive,
          len |-> Len(licenses[i].deviceActivations),
          had |-> FindActivation(licenses[i].deviceActivations, dev) # 0,
          again |-> hist[<<key, dev>>], at |-> 0 - 1]

\* a request for (key, dev) arrives and takes the first free slot
Start(p) ==
  /\ pc[p] = "idle"
  /\ \A q \in Procs : q < p => pc[q] # "idle"
  /\ started < MaxRequests
  /\ \E op \in Ops, key \in Keys, dev \in Devices :
       /\ req' = [req EXCEPT ![p] = [op |-> op, key |-> key, dev |-> dev]]
       /\ seen' = [seen EXCEPT ![p] = Seen(key, dev)]
  /\ pc' = [pc EXCEPT ![p] = "find"]
  /\ snap' = [snap EXCEPT ![p] = Null]
  /\ pend' = [pend EXCEPT ![p] = Null]
  /\ resp' = [resp EXCEPT ![p] = NoReply]
  /\ started' = started + 1
  /\ UNCHANGED <<licenses, now, hist, adminResp, adminReq, usageReq, usage, usageResp>>

\* await License.findOne({ licenseKey, isActive: true })
Find(p) ==
  /\ pc[p] = "find"
  /\ LET i == FindOneActive(licenses, req[p].key) IN
     snap' = [snap EXCEPT ![p] =
                IF i = 0 THEN Null ELSE [id |-> i, doc |-> licenses[i]]]
  /\ pc' = [pc EXCEPT ![p] = "check"]
  /\ UNCHANGED <<licenses, now, req, pend, resp, seen, hist, started, adminResp, adminReq, usageReq, usage, usageResp>>

\* how a completed activate call ended, per (key, device): "bound" once a call
\* returned valid: true, else "refused" once a call was refused for capacity
Outcome(old, r, reply) ==
  IF r.op # "activate" THEN old
  ELSE IF reply.valid THEN "bound"
  ELSE IF reply.msg = "LimitReached" /\ old = "none" THEN "refused"
  ELSE old

Finish(p, reply) ==
  /\ resp' = [resp EXCEPT ![p] = reply]
  /\ snap' = [snap EXCEPT ![p] = Null]
  /\ pc' = [pc EXCEPT ![p] = "done"]
  /\ hist' = [hist EXCEPT ![<<req[p].key, req[p].dev>>] = Outcome(@, req[p], reply)]

\* the handler's code between findOne and save(): the checks, the change of
\* the in-memory document, and either a response or the save() call
Check(p) ==
  /\ pc[p] = "check"
  /\ LET doc == IF snap[p] = Null THEN Null ELSE snap[p].doc
         plan == Plan(req[p], doc, now) IN
     IF plan.do = "respond"
       THEN /\ Finish(p, plan.reply)
            /\ UNCHANGED pend
       ELSE /\ pend' = [pend EXCEPT ![p] = [upd |-> plan.upd, reply |-> plan.reply]]
            /\ pc' = [pc EXCEPT ![p] = "save"]
            /\ UNCHANGED <<resp, hist, snap>>
  /\ seen' = [seen EXCEPT ![p].at = now]
  /\ UNCHANGED <<licenses, now, req, started, adminResp, adminReq, usageReq, usage, usageResp>>

\* await license.save(): the store applies the update, or matches no document
\* and save() rejects with VersionError, which the catch answers with 500
Save(p) ==
  /\ pc[p] = "save"
  /\ LET id == snap[p].id
         u == pend[p].upd IN
     IF SaveMatches(licenses[id], snap[p].doc.v, u)
       THEN /\ licenses' = [licenses EXCEPT ![id] = SaveApplied(@, u)]
            /\ Finish(p, pend[p].reply)
       ELSE /\ Finish(p, ServerError)
            /\ UNCHANGED licenses
  /\ pend' = [pend EXCEPT ![p] = Null]
  /\ UNCHANGED <<now, req, seen, started, adminResp, adminReq, usageReq, usage, usageResp>>

\* findOne rejects (store unreachable, timeout): catch, 500
FindFail(p) ==
  /\ pc[p] = "find"
  /\ Finish(p, ServerError)
  /\ UNCHANGED <<licenses, now, req, pend, seen, started, adminResp, adminReq, usageReq, usage, usageResp>>

\* save() rejects (store unreachable, timeout) and nothing is written: catch, 500
SaveFail(p) ==
  /\ pc[p] = "save"
  /\ Finish(p, ServerError)
  /\ pend' = [pend EXCEPT ![p] = Null]
  /\ UNCHANGED <<licenses, now, req, seen, started, adminResp, adminReq, usageReq, usage, usageResp>>

\* the response has been sent and the handler's locals are gone
Release(p) ==
  /\ pc[p] = "done"
  /\ pc' = [pc EXCEPT ![p] = "idle"]
  /\ req' = [req EXCEPT ![p] = Null]
  /\ resp' = [resp EXCEPT ![p] = NoReply]
  /\ seen' = [seen EXCEPT ![p] = Null]
  /\ UNCHANGED <<licenses, now, snap, pend, hist, started, adminResp, adminReq, usageReq, usage, usageResp>>

\* time passes
Tick ==
  /\ now < MaxTime
  /\ now' = now + 1
  /\ UNCHANGED <<licenses, pc, req, snap, pend, resp, seen, hist, started, adminResp, adminReq, usageReq, usage, usageResp>>

\* ------------------------------------------------------- admin handlers
\* process.env.ADMIN_TOKEN
AdminToken == <<"s", "k">>

BearerPrefix == <<"B", "e", "a", "r", "e", "r", " ">>

\* String.prototype.startsWith
StartsWith(s, prefix) ==
  Len(s) >= Len(prefix) /\ SubSeq(s, 1, Len(prefix)) = prefix

\* String.prototype.substring(n)
SubstringFrom(s, n) == SubSeq(s, n + 1, Len(s))

AdminReply(status, msg) == [status |-> status, msg |-> msg]

\* AuthenticateAdmin that accepts every token beginning with the secret
AuthenticateAdminPrefix(h) ==
  IF Falsy(h) \/ ~StartsWith(h.s, BearerPrefix) THEN "NoToken"
  ELSE IF ~StartsWith(SubstringFrom(h.s, 7), AdminToken) THEN "InvalidToken"
  ELSE "next"

\* authenticateAdmin: "next" when the handler runs, else the 401 message
AuthenticateAdmin(h) ==
  IF Falsy(h) \/ ~StartsWith(h.s, BearerPrefix) THEN "NoToken"
  ELSE IF SubstringFrom(h.s, 7) # AdminToken THEN "InvalidToken"
  ELSE "next"

\* schema validation of required: true on a String path
RequiredOk(s) == s # <<>>

\* KeyTaken without the unique index
KeyTakenNever(docs, key) == FALSE

\* the unique index on licenseKey: would an insert of key be rejected (code 11000)?
KeyTaken(docs, key) == IdsOfKey(docs, key) # {}

\* POST /api/admin/create-license behind authenticateAdmin: the response, and
\* the document inserted (Null for none).  key is the generated license key.
CreateOutcome(docs, t, h, key, email, name, durationMonths, maxActivations) ==
  IF AuthenticateAdmin(h) # "next"
    THEN [reply |-> AdminReply(401, AuthenticateAdmin(h)), doc |-> Null]
  ELSE IF Falsy(email) \/ Falsy(name)
    THEN [reply |-> AdminReply(400, "EmailAndNameRequired"), doc |-> Null]
  ELSE IF email.t # "string" \/ name.t # "string"
    THEN [reply |-> AdminReply(500, "TypeError"), doc |-> Null]
  ELSE IF ~RequiredOk(Trim(email.s)) \/ ~RequiredOk(Trim(name.s))
    THEN [reply |-> AdminReply(500, "ValidationError"), doc |-> Null]
  ELSE IF KeyTaken(docs, key)
    THEN [reply |-> AdminReply(400, "KeyAlreadyExists"), doc |-> Null]
  ELSE [reply |-> AdminReply(200, "Created"),
        doc |-> NewLicense(key, Trim(email.s), Trim(name.s),
                           t + ParseIntOr(Default(durationMonths, Num(12)), 12),
                           ParseIntOr(Default(maxActivations, Num(1)), 1), t)]

\* req.headers.authorization and req.body of a create-license request
CreateBody(h, email, name, durationMonths, maxActivations) ==
  [auth |-> h, customerEmail |-> email, customerName |-> name,
   durationMonths |-> durationMonths, maxActivations |-> maxActivations]

Str1(c) == Str(<<c>>)

GoodAuth == Str(BearerPrefix \o AdminToken)

\* the admin requests tried beside the public ones: well-formed, with and
\* without durationMonths and maxActivations
CoreCreates ==
  {CreateBody(GoodAuth, Str1("a"), Str1("n"), d, m) :
     d \in {Undefined, Num(1)}, m \in {Undefined, Num(2)}}

CoreAuths == {GoodAuth}

\* a create-license request arrives; keys are the keys the generator may draw
CreateLicense(bodies, keys) ==
  /\ started < MaxRequests
  /\ \E b \in bodies, key \in keys :
       LET out == CreateOutcome(licenses, now, b.auth, key, b.customerEmail,
                                b.customerName, b.durationMonths, b.maxActivations) IN
       /\ adminReq' = [op |-> "create", auth |-> b.auth, body |-> b, key |-> key]
       /\ adminResp' = out.reply
       /\ licenses' = IF out.doc = Null THEN licenses ELSE Append(licenses, out.doc)
  /\ started' = started + 1
  /\ UNCHANGED <<now, pc, req, snap, pend, resp, seen, hist, usageReq, usage, usageResp>>

\* License.create rejects because the store is unreachable: catch, 500 with
\* the error's message.  Only a request that reaches License.create and whose
\* document passes the schema validation gets that far.
CreateLicenseFail(bodies, keys) ==
  /\ started < MaxRequests
  /\ \E b \in bodies, key \in keys :
       LET out == CreateOutcome(licenses, now, b.auth, key, b.customerEmail,
                                b.customerName, b.durationMonths, b.maxActivations) IN
       /\ out.reply.msg \in {"Created", "KeyAlreadyExists"}
       /\ adminReq' = [op |-> "create", auth |-> b.auth, body |-> b, key |-> key]
       /\ adminResp' = AdminReply(500, "StoreError")
  /\ started' = started + 1
  /\ UNCHANGED <<licenses, now, pc, req, snap, pend, resp, seen, hist,
                 usageReq, usage, usageResp>>

\* Deactivated that switches isActive
DeactivatedToggle(docs, key) ==
  LET i == FindOneByKey(docs, key) IN
  IF i = 0 THEN docs ELSE [docs EXCEPT ![i].isActive = ~@]

\* Deactivated that also ends the license's term
DeactivatedAndExpired(docs, key) ==
  LET i == FindOneByKey(docs, key) IN
  IF i = 0 THEN docs ELSE [docs EXCEPT ![i].isActive = FALSE, ![i].expiryDate = 0]

\* Deactivated that also releases the license's devices
DeactivatedAndReset(docs, key) ==
  LET i == FindOneByKey(docs, key) IN
  IF i = 0 THEN docs
  ELSE [docs EXCEPT ![i].isActive = FALSE, ![i].deviceActivations = <<>>,
                    ![i].currentActivations = 0]

\* License.findOneAndUpdate({ licenseKey }, { isActive: false }): the
\* collection after the update
Deactivated(docs, key) ==
  LET i == FindOneByKey(docs, key) IN
  IF i = 0 THEN docs ELSE [docs EXCEPT ![i].isActive = FALSE]

\* POST /api/admin/deactivate-license behind authenticateAdmin; keys are the
\* values of req.body.licenseKey tried
DeactivateLicense(auths, keys) ==
  /\ started < MaxRequests
  /\ \E h \in auths, key \in keys :
       /\ adminReq' = [op |-> "deactivate", auth |-> h, key |-> key]
       /\ IF AuthenticateAdmin(h) # "next"
            THEN /\ adminResp' = AdminReply(401, AuthenticateAdmin(h))
                 /\ UNCHANGED licenses
            ELSE /\ licenses' = Deactivated(licenses, key)
                 /\ adminResp' = IF FindOneByKey(licenses, key) = 0
                                   THEN AdminReply(404, "LicenseNotFound")
                                   ELSE AdminReply(200, "Deactivated")
  /\ started' = started + 1
  /\ UNCHANGED <<now, pc, req, snap, pend, resp, seen, hist, usageReq, usage, usageResp>>

\* the keys the generator draws in the runs of the admin requests alone
AdminKeys == {"K1", "K2"}

Blank == Str(<<" ">>)

\* a well-formed create-license request
BaseCreate == CreateBody(GoodAuth, Str1("a"), Str1("n"), Undefined, Undefined)

\* customerEmail and customerName as sent: absent, empty, blank, padded, not a string
FieldInputs == {Undefined, Str(<<>>), Blank, Str(<<" ", "a">>), Num(1)}

\* maxActivations as sent: zero, negative, fractional strings are not tried
MaxInputs ==
  {Undefined, Num(0), Num(0 - 1), Num(2), Str(<<"x">>), Str(<<"-", "1">>),
   Str(<<"2", "x">>), Str(<<"0">>)}

\* the create-license requests tried in the runs of the admin requests alone:
\* BaseCreate with one field changed, and with both names blank
AdminCreates ==
  {[BaseCreate EXCEPT !.customerEmail = e] : e \in FieldInputs}
    \cup {[BaseCreate EXCEPT !.customerName = n] : n \in {Str(<<>>), Blank}}
    \cup {[BaseCreate EXCEPT !.maxActivations = m] : m \in MaxInputs}
    \cup {[BaseCreate EXCEPT !.durationMonths = Num(1)],
          [BaseCreate EXCEPT !.customerEmail = Blank, !.customerName = Blank],
          [BaseCreate EXCEPT !.auth = Undefined]}

\* ------------------------------------------------- the expiry date
\* The store model above measures time in months.  Here the two lines that
\* compute expiryDate are modelled on calendar dates: a date is a year, a
\* month (0 for January, as getMonth counts) and a day of the month.
LeapYear(y) == y % 4 = 0 /\ (y % 100 # 0 \/ y % 400 = 0)

DaysIn(y, m) ==
  IF m = 1 THEN (IF LeapYear(y) THEN 29 ELSE 28)
  ELSE IF m \in {3, 5, 8, 10} THEN 30
  ELSE 31

CalDate(y, m, d) == [y |-> y, m |-> m, d |-> d]

\* SetMonth that stops at the last day of a shorter month
SetMonthClamped(date, month) ==
  LET y == date.y + (month \div 12)
      m == month % 12 IN
  IF date.d <= DaysIn(y, m) THEN CalDate(y, m, date.d)
  ELSE CalDate(y, m, DaysIn(y, m))

\* Date.prototype.setMonth(month): the month may lie outside 0..11 and then
\* moves the year; a day of the month that the new month does not have runs
\* over into the month after it
SetMonth(date, month) ==
  LET y == date.y + (month \div 12)
      m == month % 12 IN
  IF date.d <= DaysIn(y, m) THEN CalDate(y, m, date.d)
  ELSE CalDate(y + ((m + 1) \div 12), (m + 1) % 12, date.d - DaysIn(y, m))

\* expiryDate.setMonth(expiryDate.getMonth() + (parseInt(durationMonths) || 12))
ExpiryOf(date, durationMonths) ==
  SetMonth(date, date.m + ParseIntOr(Default(durationMonths, Num(12)), 12))

\* the dates of creation tried: first and last days of long and short months,
\* in a common year and in a leap year
CreationDates ==
  {x \in {CalDate(y, m, d) : y \in {2023, 2024}, m \in {0, 1, 2, 7, 10, 11},
                            d \in {1, 28, 29, 30, 31}} :
     x.d <= DaysIn(x.y, x.m)}

\* durationMonths as sent
DurationInputs ==
  {Undefined, Num(1), Num(2), Num(12), Num(0), Num(0 - 1), Str(<<"x">>),
   Str(<<"3">>)}

\* the expiry computation of a create-license request received on a date
ComputeExpiry ==
  /\ \E date \in CreationDates, v \in DurationInputs :
       /\ adminReq' = [op |-> "expiry", auth |-> GoodAuth, created |-> date,
                       durationMonths |-> v]
       /\ adminResp' = [status |-> 200, msg |-> "Created",
                        expiryDate |-> ExpiryOf(date, v)]
  /\ UNCHANGED <<licenses, now, pc, req, snap, pend, resp, seen, hist, started,
                 usageReq, usage, usageResp>>

\* ------------------------------------------------------- usage recorder
\* the license_key values tried: the keys of licenses, and a key no license has
UsageKeys == Keys \cup {"K0"}

\* one document of the usages collection (metadata is stored unread)
NewUsage(r, t) ==
  [licenseKey |-> r.key, deviceId |-> r.dev, action |-> r.action, timestamp |-> t]

\* res.json({ success }) of POST /api/record-usage
UsageReply(status, success) == [status |-> status, success |-> success]

\* UsageCreated that inserts the event twice
UsageCreatedTwice(log, r, t) == Append(Append(log, NewUsage(r, t)), NewUsage(r, t))

\* await Usage.create({..}): the collection after the insert
UsageCreated(log, r, t) == Append(log, NewUsage(r, t))

\* UsageFailed as an error status
UsageFailedAsError == UsageReply(500, FALSE)

\* the catch of POST /api/record-usage: res.json({ success: false })
UsageFailed == UsageReply(200, FALSE)

UsageInFlight == usageReq # Null /\ usageResp = Null

\* a record-usage request arrives
StartUsage ==
  /\ ~UsageInFlight
  /\ started < MaxRequests
  /\ \E key \in UsageKeys, dev \in Devices :
       usageReq' = [key |-> key, dev |-> dev, action |-> "run"]
  /\ usageResp' = Null
  /\ started' = started + 1
  /\ UNCHANGED <<licenses, now, pc, req, snap, pend, resp, seen, hist,
                 adminResp, adminReq, usage>>

\* await Usage.create resolves: the event is stored, success: true
RecordUsage ==
  /\ UsageInFlight
  /\ usage' = UsageCreated(usage, usageReq, now)
  /\ usageResp' = UsageReply(200, TRUE)
  /\ UNCHANGED <<licenses, now, pc, req, snap, pend, resp, seen, hist, started,
                 adminResp, adminReq, usageReq>>

\* await Usage.create rejects and nothing is stored: catch, success: false
RecordUsageFail ==
  /\ UsageInFlight
  /\ usageResp' = UsageFailed
  /\ UNCHANGED <<licenses, now, pc, req, snap, pend, resp, seen, hist, started,
                 adminResp, adminReq, usageReq, usage>>

\* ---------------------------------------------------- admin reporting
RECURSIVE Reverse(_)
Reverse(q) == IF q = <<>> THEN <<>> ELSE Append(Reverse(Tail(q)), Head(q))

\* a response of an admin handler that carries data
AdminData(body) == [status |-> 200, msg |-> "Data", body |-> body]

\* License.find().sort({ createdAt: -1 }): the newest first (createdAt is the
\* time of the insert)
LicensesNewestFirst(docs) == Reverse(docs)

Max(S) == CHOOSE x \in S : \A y \in S : x >= y

\* Usage.aggregate([$group by licenseKey, $lookup licenses]): one group per
\* license key of the log
UsageStatsOf(log, docs) ==
  {LET es == {i \in 1..Len(log) : log[i].licenseKey = k} IN
   [id |-> k,
    totalActions |-> Cardinality(es),
    lastActivity |-> Max({log[i].timestamp : i \in es}),
    uniqueDevices |-> {log[i].deviceId : i \in es},
    actions |-> LET evs == SelectSeq(log, LAMBDA e : e.licenseKey = k) IN
                [i \in 1..Len(evs) |->
                   [action |-> evs[i].action, timestamp |-> evs[i].timestamp]],
    licenseInfo |-> {docs[j] : j \in IdsOfKey(docs, k)}] :
     k \in {log[i].licenseKey : i \in 1..Len(log)}}

\* GET /api/admin/licenses behind authenticateAdmin
ListLicenses(auths) ==
  /\ started < MaxRequests
  /\ \E h \in auths :
       /\ adminReq' = [op |-> "list", auth |-> h]
       /\ adminResp' = IF AuthenticateAdmin(h) # "next"
                         THEN AdminReply(401, AuthenticateAdmin(h))
                         ELSE AdminData(LicensesNewestFirst(licenses))
  /\ started' = started + 1
  /\ UNCHANGED <<licenses, now, pc, req, snap, pend, resp, seen, hist,
                 usageReq, usage, usageResp>>

\* GET /api/admin/usage-stats behind authenticateAdmin
UsageStats(auths) ==
  /\ started < MaxRequests
  /\ \E h \in auths :
       /\ adminReq' = [op |-> "stats", auth |-> h]
       /\ adminResp' = IF AuthenticateAdmin(h) # "next"
                         THEN AdminReply(401, AuthenticateAdmin(h))
                         ELSE AdminData(UsageStatsOf(usage, licenses))
  /\ started' = started + 1
  /\ UNCHANGED <<licenses, now, pc, req, snap, pend, resp, seen, hist,
                 usageReq, usage, usageResp>>

\* the Authorization headers tried: absent, empty, the secret without the
\* scheme, the scheme alone, a token that is a prefix of the secret, a token
\* that the secret is a prefix of, the scheme in lower case, the right one
AllAuths ==
  {Undefined, Str(<<>>), Str(AdminToken), Str(BearerPrefix),
   Str(BearerPrefix \o <<"s">>), Str(BearerPrefix \o AdminToken \o <<"x">>),
   Str(<<"b", "e", "a", "r", "e", "r", " ">> \o AdminToken), GoodAuth}

\* a well-formed create-license request under each of the headers
AuthCreates == {[BaseCreate EXCEPT !.auth = h] : h \in AllAuths}

\* ------------------------------------------------------- the pages
\* another value that process.env.ADMIN_TOKEN could have
OtherToken == <<"o", "t">>

\* GET /: the homepage, a fixed document
HomePage == [status |-> 200, msg |-> "Home"]

\* GET /admin: the admin panel, whose inline script holds
\* const ADMIN_TOKEN = '${adminToken}'
AdminPage(token) == [status |-> 200, msg |-> "AdminPanel", script |-> token]

\* the response to GET path when the secret is token
PageOf(path, token) == IF path = "/admin" THEN AdminPage(token) ELSE HomePage

\* GET / and GET /admin: no middleware, any client is answered
GetPage ==
  /\ started < MaxRequests
  /\ \E path \in {"/", "/admin"} :
       /\ adminReq' = [op |-> "page", auth |-> Undefined, path |-> path]
       /\ adminResp' = PageOf(path, AdminToken)
  /\ started' = started + 1
  /\ UNCHANGED <<licenses, now, pc, req, snap, pend, resp, seen, hist,
                 usageReq, usage, usageResp>>

\* the Authorization headers that a client without the secret can send: none,
\* a guess, and "Bearer " + the ADMIN_TOKEN of the script of the page it was
\* last served (what the page's createLicense() sends)
ClientAuths ==
  {Undefined, Str(BearerPrefix \o OtherToken)}
    \cup (IF "script" \in DOMAIN adminResp
            THEN {Str(BearerPrefix \o adminResp.script)} ELSE {})

\* ------------------------------------------------------- specifications
Init ==
  /\ licenses = <<>>
  /\ now = 0
  /\ pc = [p \in Procs |-> "idle"]
  /\ req = [p \in Procs |-> Null]
  /\ snap = [p \in Procs |-> Null]
  /\ pend = [p \in Procs |-> Null]
  /\ resp = [p \in Procs |-> NoReply]
  /\ seen = [p \in Procs |-> Null]
  /\ hist = [pr \in Pairs |-> "none"]
  /\ started = 0
  /\ adminResp = AdminReply(0, "None")
  /\ adminReq = Null
  /\ usageReq = Null
  /\ usage = <<>>
  /\ usageResp = Null

\* requests are handled concurrently; the store answers every call
Next ==
  \/ \E p \in Procs : Start(p) \/ Find(p) \/ Check(p) \/ Save(p) \/ Release(p)
  \/ CreateLicense(CoreCreates, Keys)
  \/ DeactivateLicense(CoreAuths, Keys)
  \/ Tick

Spec == Init /\ [][Next]_vars

\* as Spec, and any store call of a public handler may reject
FaultNext ==
  \/ Next
  \/ \E p \in Procs : FindFail(p) \/ SaveFail(p)

FaultSpec == Init /\ [][FaultNext]_vars

\* every store call settles (it resolves, or rejects at the latest when the
\* driver's timeout expires) and the event loop then runs the handler's
\* continuation
Settles(p) ==
  /\ WF_vars(Find(p) \/ FindFail(p))
  /\ WF_vars(Check(p))
  /\ WF_vars(Save(p) \/ SaveFail(p))

\* the public requests are handled concurrently and any of their store calls
\* may reject; the admin requests arrive between them
Quiet == \A p \in Procs : pc[p] = "idle"

LiveNext ==
  \/ \E p \in Procs : Start(p) \/ Find(p) \/ Check(p) \/ Save(p) \/ Release(p)
  \/ \E p \in Procs : FindFail(p) \/ SaveFail(p)
  \/ Quiet /\ CreateLicense(CoreCreates, Keys)
  \/ Quiet /\ DeactivateLicense(CoreAuths, Keys)
  \/ Tick

LiveSpec == Init /\ [][LiveNext]_vars /\ \A p \in Procs : Settles(p)

\* one request at a time: a request arrives only when every earlier one has
\* been answered and its handler is gone

SeqStart(p) == Quiet /\ Start(p)

SeqNext ==
  \/ \E p \in Procs : SeqStart(p) \/ Find(p) \/ Check(p) \/ Save(p) \/ Release(p)
  \/ Quiet /\ CreateLicense(CoreCreates, Keys)
  \/ Quiet /\ DeactivateLicense(CoreAuths, Keys)
  \/ Tick

SeqSpec == Init /\ [][SeqNext]_vars

\* the usage recorder beside the admin requests; its store call may reject
UsageNext ==
  \/ StartUsage
  \/ RecordUsage
  \/ RecordUsageFail
  \/ CreateLicense(CoreCreates, Keys)
  \/ DeactivateLicense(CoreAuths, Keys)
  \/ Tick

UsageSpec == Init /\ [][UsageNext]_vars

\* the admin requests alone, with every kind of create-license body; the
\* store may reject License.create
AdminNext ==
  \/ CreateLicense(AdminCreates, AdminKeys)
  \/ CreateLicenseFail({BaseCreate}, AdminKeys)
  \/ DeactivateLicense(CoreAuths, AdminKeys)
  \/ Tick

AdminSpec == Init /\ [][AdminNext]_vars

\* one request at a time, the admin requests on licenses of two keys: a
\* license with activations is deactivated beside another license
LifeNext ==
  \/ \E p \in Procs : SeqStart(p) \/ Find(p) \/ Check(p) \/ Save(p) \/ Release(p)
  \/ Quiet /\ CreateLicense(CoreCreates, AdminKeys)
  \/ Quiet /\ DeactivateLicense(CoreAuths, AdminKeys)
  \/ Tick

LifeSpec == Init /\ [][LifeNext]_vars

\* the four admin requests under every kind of Authorization header, beside
\* the usage recorder
AuthNext ==
  \/ CreateLicense(AuthCreates, Keys)
  \/ DeactivateLicense(AllAuths, Keys)
  \/ ListLicenses(AllAuths)
  \/ UsageStats(AllAuths)
  \/ StartUsage
  \/ RecordUsage
  \/ Tick

AuthSpec == Init /\ [][AuthNext]_vars

\* the expiry computation alone, on calendar dates
DateNext == ComputeExpiry

DateSpec == Init /\ [][DateNext]_vars

\* every operation on licenses of two keys, one request at a time: public
\* requests, admin requests and the usage recorder
OpsNext ==
  \/ \E p \in Procs : SeqStart(p) \/ Find(p) \/ Check(p) \/ Save(p) \/ Release(p)
  \/ Quiet /\ CreateLicense(CoreCreates, AdminKeys)
  \/ Quiet /\ DeactivateLicense(CoreAuths, AdminKeys)
  \/ Quiet /\ StartUsage
  \/ RecordUsage
  \/ Tick

OpsSpec == Init /\ [][OpsNext]_vars

\* a client that starts without the secret: it gets the pages and sends admin
\* requests under the headers it can build
PageNext ==
  \/ GetPage
  \/ CreateLicense({[BaseCreate EXCEPT !.auth = h] : h \in ClientAuths}, Keys)
  \/ DeactivateLicense(ClientAuths, Keys)
  \/ Tick

PageSpec == Init /\ [][PageNext]_vars

\* ============================================================ properties
\* the step that sends the response of slot p's request
Completes(p) == InFlight(p) /\ pc'[p] = "done"

\* a step of slot p's request
Steps(p) == pc'[p] # pc[p]

\* the license of a key as stored now (keys are unique while C17 holds)
Stored(key) == licenses[FindOneByKey(licenses, key)]

Done(p, op) == pc[p] = "done" /\ req[p].op = op

\* ---- C1
\* C1: in every reachable state every license has at most maxActivations
\* activation records, whatever the interleaving of the activate requests.
C1_ActivationsWithinMax ==
  \A i \in Ids : Len(licenses[i].deviceActivations) <= licenses[i].maxActivations

\* ---- C2
\* C2: when every slot has completed an activate request on the same valid
\* license, all of them issued while the license had no activation, for
\* pairwise distinct devices, and maxActivations = k is less than their
\* number N, then exactly k were answered with a new activation and the
\* other N - k with LimitReached.
C2_ExactlyKSucceed ==
  \A key \in Keys :
    ( /\ \A p \in Procs :
           /\ Done(p, "activate") /\ req[p].key = key
           /\ seen[p].present /\ ~seen[p].revoked /\ seen[p].len = 0
           /\ seen[p].at <= Stored(key).expiryDate
      /\ \A p, q \in Procs : p # q => req[p].dev # req[q].dev
      /\ FindOneActive(licenses, key) # 0
      /\ Stored(key).maxActivations < NumProcs )
    => /\ Cardinality({p \in Procs : resp[p].msg = "Activated"})
            = Stored(key).maxActivations
       /\ \A p \in Procs : resp[p].msg \in {"Activated", "LimitReached"}

\* ---- C3
\* C3: in every reachable state a deviceId occurs at most once in a license's
\* activation list, also after two concurrent activate requests for it.
C3_DeviceAtMostOnce ==
  \A i \in Ids :
    \A a, b \in 1..Len(licenses[i].deviceActivations) :
      a # b => licenses[i].deviceActivations[a].deviceId
                 # licenses[i].deviceActivations[b].deviceId

\* ---- C4 .. C6 are about requests handled one after the other (SeqSpec)
\* the license that findOne returned to slot p is usable when p's checks run
UsableAtCheck(p) ==
  /\ snap[p] # Null
  /\ snap[p].doc.isActive
  /\ seen'[p].at <= snap[p].doc.expiryDate

\* the devices of an activation list, in order
DeviceIds(acts) == [i \in 1..Len(acts) |-> acts[i].deviceId]

\* no license gains or loses an activation record, and no counter changes
ActivationsUnchanged ==
  /\ Len(licenses') = Len(licenses)
  /\ \A i \in Ids :
       /\ DeviceIds(licenses'[i].deviceActivations) = DeviceIds(licenses[i].deviceActivations)
       /\ licenses'[i].currentActivations = licenses[i].currentActivations

\* no activation list gets longer
NoListLonger ==
  /\ Len(licenses') = Len(licenses)
  /\ \A i \in Ids :
       Len(licenses'[i].deviceActivations) <= Len(licenses[i].deviceActivations)

\* C4 as stated: an activate call on a usable license that follows a completed
\* activate call for the same key and device on a usable license (answered
\* with success or with LimitReached) adds no activation record and is
\* answered with success, already activated.
C4_SecondCallAlreadyActivated ==
  [][\A p \in Procs :
       (Completes(p) /\ req[p].op = "activate" /\ seen[p].again # "none"
          /\ UsableAtCheck(p))
       => /\ NoListLonger
          /\ resp'[p].valid /\ resp'[p].msg = "AlreadyActivated"]_vars

\* C4 amended: an activate call on a usable license that follows a completed
\* activate call for the same key and device adds no activation record, and
\* when an earlier call was answered with success it is answered with
\* success, already activated.
C4_RepeatAfterSuccess ==
  [][\A p \in Procs :
       (Completes(p) /\ req[p].op = "activate" /\ seen[p].again # "none"
          /\ UsableAtCheck(p))
       => /\ NoListLonger
          /\ seen[p].again = "bound"
               => resp'[p].valid /\ resp'[p].msg = "AlreadyActivated"]_vars

\* a second activate call for a bound device was answered, and the list has
\* one record
C4_Witness ==
  \E p \in Procs :
    /\ Done(p, "activate") /\ seen[p].again = "bound"
    /\ resp[p].msg = "AlreadyActivated"
    /\ Len(Stored(req[p].key).deviceActivations) = 1

C6_NewDeviceRefusedWhenFull ==
  [][\A p \in Procs :
       (Completes(p) /\ req[p].op = "activate" /\ UsableAtCheck(p)
          /\ FindActivation(snap[p].doc.deviceActivations, req[p].dev) = 0
          /\ Len(snap[p].doc.deviceActivations) >= snap[p].doc.maxActivations)
       => /\ ~resp'[p].valid /\ resp'[p].msg = "LimitReached"
          /\ licenses' = licenses]_vars

\* D2 was refused on a license of one activation that D1 holds
C6_Witness ==
  \E p \in Procs :
    /\ Done(p, "activate") /\ ~seen[p].had /\ seen[p].len = 1
    /\ Stored(req[p].key).maxActivations = 1
    /\ Len(Stored(req[p].key).deviceActivations) = 1
    /\ resp[p].msg = "LimitReached"

\* ---- C7 .. C9 hold of concurrent requests (Spec)
\* C7: a request is answered valid: true only when the license it found is
\* active and the time of its expiry check is at most expiryDate; when that
\* time is after expiryDate it is answered valid: false, Expired, and no
\* license changes; when that time equals expiryDate it is not answered
\* Expired.
C7_ValidOnlyIfActiveAndUnexpired ==
  [][\A p \in Procs :
       Completes(p)
       => /\ resp'[p].valid => UsableAtCheck(p)
          /\ (snap[p] # Null /\ seen'[p].at > snap[p].doc.expiryDate)
               => /\ ~resp'[p].valid /\ resp'[p].msg = "Expired"
                  /\ licenses' = licenses
          /\ (snap[p] # Null /\ seen'[p].at = snap[p].doc.expiryDate)
               => resp'[p].msg # "Expired"]_vars

\* one request was answered valid at the very time of expiry, another was
\* answered Expired
C7_Witness ==
  \E p, q \in Procs :
    /\ pc[p] = "done" /\ resp[p].valid
    /\ seen[p].at = Stored(req[p].key).expiryDate
    /\ pc[q] = "done" /\ resp[q].msg = "Expired"
    /\ seen[q].at > Stored(req[q].key).expiryDate

\* C8: a request that arrives when the license of its key is deactivated is
\* answered valid: false with the not found / inactive outcome of its
\* handler, whatever the expiry date and the device's activation.
C8_RevokedIsNotFound ==
  \A p \in Procs :
    (pc[p] = "done" /\ seen[p].revoked)
    => /\ ~resp[p].valid
       /\ resp[p].msg = IF req[p].op = "validate" THEN "NotFoundOrInactive"
                                                  ELSE "InvalidKey"

\* a device with an activation on a deactivated and expired license was
\* answered not found
C8_Witness ==
  \E p \in Procs :
    /\ pc[p] = "done" /\ seen[p].revoked /\ seen[p].had
    /\ seen[p].at > Stored(req[p].key).expiryDate
    /\ resp[p].msg = "NotFoundOrInactive"

\* C9: no step of a validate request adds or removes an activation record or
\* changes an activation counter, and a validate request that found an
\* active, unexpired license without a record of its device is answered
\* valid: false, DeviceNotActivated.
C9_ValidateNeverActivates ==
  [][\A p \in Procs :
       (InFlight(p) /\ Steps(p) /\ req[p].op = "validate")
       => /\ ActivationsUnchanged
          /\ (Completes(p) /\ UsableAtCheck(p)
                /\ FindActivation(snap[p].doc.deviceActivations, req[p].dev) = 0)
               => ~resp'[p].valid /\ resp'[p].msg = "DeviceNotActivated"]_vars

\* a validate was answered DeviceNotActivated and the device still has no record
C9_Witness ==
  \E p \in Procs :
    /\ Done(p, "validate") /\ resp[p].msg = "DeviceNotActivated"
    /\ FindActivation(Stored(req[p].key).deviceActivations, req[p].dev) = 0

\* ---- C10, with store calls that may reject (FaultSpec)
\* C10: a validate request that found an active, unexpired license with a
\* record of its device is answered valid: true, also when the write of
\* lastValidation fails.
C10_ValidDespiteFailedWrite ==
  [][\A p \in Procs :
       (Completes(p) /\ req[p].op = "validate" /\ UsableAtCheck(p)
          /\ FindActivation(snap[p].doc.deviceActivations, req[p].dev) # 0)
       => resp'[p].valid]_vars

\* ---- C11, with store calls that may reject and that settle (LiveSpec)
\* the messages of the domain outcomes
DomainMsgs ==
  {"NotFoundOrInactive", "InvalidKey", "Expired", "DeviceNotActivated", "LimitReached"}

\* C11: every validate and activate request is eventually answered, once,
\* with a result whose valid flag is a boolean; a domain outcome is an
\* ordinary (status 200) result with valid: false; a request whose findOne
\* rejects is answered with the server error, a request is answered from its
\* save() with an ordinary result only when the store applied the write, and
\* the server error differs from every domain outcome in status and message.
C11_Total ==
  /\ \A p \in Procs : InFlight(p) ~> pc[p] = "done"
  /\ [][\A p \in Procs :
          /\ Completes(p)
             => /\ resp[p] = NoReply
                /\ resp'[p].valid \in BOOLEAN
                /\ resp'[p].status \in {200, 500}
                /\ resp'[p].msg \in DomainMsgs
                     => resp'[p].status = 200 /\ ~resp'[p].valid
                /\ resp'[p].status = 500
                     => resp'[p].msg = "ServerError" /\ ~resp'[p].valid
                /\ pc[p] = "find" => resp'[p].status = 500
                /\ (pc[p] = "save" /\ resp'[p].status = 200)
                     => licenses'[snap[p].id]
                          = SaveApplied(licenses[snap[p].id], pend[p].upd)
          /\ (pc[p] = "done" /\ pc'[p] = "done") => resp'[p] = resp[p]]_vars

\* one request was answered with the server error after its findOne rejected,
\* another with a domain outcome
C11_Witness ==
  \E p, q \in Procs :
    /\ pc[p] = "done" /\ resp[p] = ServerError /\ seen[p].at < 0
    /\ pc[q] = "done" /\ resp[q].msg \in DomainMsgs

\* ---- C12, C13: the usage recorder (UsageSpec)
\* the step that answers the record-usage request
UsageAnswered == UsageInFlight /\ usageResp' # Null

\* C12: the step that answers a record-usage request changes no license, and
\* when its store write succeeded it has appended exactly one usage event,
\* that of the request, and answers success: true; this for every license
\* key, whether a license of that key exists, is deactivated or has expired.
C12_RecordIsPureAppend ==
  [][UsageAnswered
     => /\ licenses' = licenses
        /\ usage' # usage
             => /\ usage' = Append(usage, NewUsage(usageReq, now))
                /\ usageResp' = UsageReply(200, TRUE)]_vars

\* usage was recorded for a key that no license has, and then for the key of
\* a license that is deactivated and expired
C12_Witness ==
  /\ usageReq # Null /\ usageResp = UsageReply(200, TRUE)
  /\ usageReq.key \in Keys
  /\ FindOneByKey(licenses, usageReq.key) # 0
  /\ ~Stored(usageReq.key).isActive
  /\ now > Stored(usageReq.key).expiryDate
  /\ Len(usage) = 2
  /\ usage[1].licenseKey = "K0" /\ usage[2].licenseKey = usageReq.key
  /\ usage[2].timestamp = now
  /\ licenses # <<>>

\* C13: when the store write of a record-usage request fails, no usage event
\* is appended and the request is answered with the soft result success:
\* false (status 200), never an error status; success: false is answered
\* only then.
C13_FailedWriteIsSoft ==
  [][UsageAnswered
     => /\ usageResp'.status = 200
        /\ usageResp'.success \in BOOLEAN
        /\ (usage' = usage) <=> ~usageResp'.success]_vars

\* a record-usage request was answered success: false after an earlier one
\* was stored, and the log still holds that one event only
C13_Witness ==
  /\ usageReq # Null /\ usageResp = UsageFailed
  /\ Len(usage) = 1
  /\ usage[1].deviceId # usageReq.dev

\* ---- C14 .. C18: the admin requests (AdminSpec)
\* the step in which an admin request arrives and is answered
AdminArrives ==
  /\ started' = started + 1
  /\ pc' = pc
  /\ usageReq' = usageReq /\ usageResp' = usageResp

\* an authorized create-license request is answered in this step
Creates == AdminArrives /\ adminReq'.op = "create" /\ adminReq'.auth = GoodAuth

\* a string that is empty after trimming
BlankAfterTrim(v) == v.t = "string" /\ Trim(v.s) = <<>>

\* C14: a create-license request whose customerEmail or customerName is a
\* string that is empty after trimming, whitespace-only strings included, is
\* answered with a client error (status 400) and creates no license.
C14_BlankIsClientError ==
  [][(Creates /\ (BlankAfterTrim(adminReq'.body.customerEmail)
                    \/ BlankAfterTrim(adminReq'.body.customerName)))
     => adminResp'.status = 400 /\ licenses' = licenses]_vars

\* an authorized create-license request is answered with success in this step
Created == Creates /\ adminResp'.status = 200

\* the license that this step inserted
Inserted == licenses'[Len(licenses')]

\* this step inserted one license and left the others as they were
InsertedOne ==
  /\ Len(licenses') = Len(licenses) + 1
  /\ SubSeq(licenses', 1, Len(licenses)) = licenses

StartsFresh(doc) ==
  doc.isActive /\ doc.deviceActivations = <<>> /\ doc.currentActivations = 0

\* C15 as stated: a successful create-license inserts a license that is
\* active, has no activation record and an activation count of 0, and whose
\* maxActivations is the number requested, 1 when none was requested.
C15_StartsWithRequestedMax ==
  [][Created
     => /\ InsertedOne /\ StartsFresh(Inserted)
        /\ LET m == adminReq'.body.maxActivations IN
           /\ m = Undefined => Inserted.maxActivations = 1
           /\ m.t = "number" => Inserted.maxActivations = m.n]_vars

\* C15 amended: a successful create-license inserts a license that is active,
\* has no activation record and an activation count of 0, and whose
\* maxActivations is the number requested when that is not 0, and 1 when
\* none, 0 or a string without a leading integer was requested.
C15_StartsWithParsedMax ==
  [][Created
     => /\ InsertedOne /\ StartsFresh(Inserted)
        /\ LET m == adminReq'.body.maxActivations IN
           /\ m \in {Undefined, Num(0), Str(<<"x">>), Str(<<"0">>)}
                => Inserted.maxActivations = 1
           /\ (m.t = "number" /\ m.n # 0) => Inserted.maxActivations = m.n]_vars

\* a license was created with maxActivations: 2 after one created with none
\* requested
C15_Witness ==
  /\ adminReq # Null /\ adminReq.op = "create" /\ adminResp.status = 200
  /\ adminReq.body.maxActivations = Num(2)
  /\ Len(licenses) = 2
  /\ licenses[1].maxActivations = 1
  /\ licenses[2].maxActivations = 2 /\ StartsFresh(licenses[2])

\* C16: in every reachable state every stored license has maxActivations >= 1,
\* whatever maxActivations the create-license requests carried.
C16_MaxAtLeastOne == \A i \in Ids : licenses[i].maxActivations >= 1

\* no two stored licenses have the same licenseKey
KeysUnique ==
  \A i, j \in Ids : licenses[i].licenseKey = licenses[j].licenseKey => i = j

\* C17: in every reachable state no two licenses have the same key; a
\* create-license whose generated key is the key of a stored license changes
\* no license and adds none (it is not retried with another key), and when
\* its body is well-formed and the store answered it is answered with the
\* duplicate-key error.
C17_KeysUnique ==
  /\ []KeysUnique
  /\ [][(Creates /\ \E i \in Ids : licenses[i].licenseKey = adminReq'.key)
        => /\ licenses' = licenses
           /\ adminResp'.status # 200
           /\ (adminReq'.body = BaseCreate /\ adminResp'.msg # "StoreError")
                => adminResp' = AdminReply(400, "KeyAlreadyExists")]_vars

\* a create-license drew the key of a stored license and was answered with the
\* duplicate-key error, beside a license of another key
C17_Witness ==
  /\ adminReq # Null /\ adminReq.op = "create"
  /\ adminResp = AdminReply(400, "KeyAlreadyExists")
  /\ Len(licenses) = 2
  /\ adminReq.key = licenses[1].licenseKey

\* ---- C18: deactivation of licenses that have activations (LifeSpec)
\* an authorized deactivate-license request is answered in this step
Deactivates ==
  AdminArrives /\ adminReq'.op = "deactivate" /\ adminReq'.auth = GoodAuth

\* C18: a deactivate-license request for the key of a stored license leaves
\* that license with isActive = false and every other field as it was, and
\* every other license as it was, so that a second deactivation changes
\* nothing; for a key that no license has it is answered not found (404) and
\* changes nothing.
C18_DeactivateOnlyClearsIsActive ==
  [][Deactivates
     => LET ids == IdsOfKey(licenses, adminReq'.key) IN
        /\ Len(licenses') = Len(licenses)
        /\ \A i \in Ids :
             IF i \in ids
               THEN /\ ~licenses'[i].isActive
                    /\ [licenses'[i] EXCEPT !.isActive = licenses[i].isActive]
                         = licenses[i]
               ELSE licenses'[i] = licenses[i]
        /\ (\A i \in ids : ~licenses[i].isActive) => licenses' = licenses
        /\ adminResp'.status = IF ids = {} THEN 404 ELSE 200]_vars

\* a license with an activation record was deactivated beside an active
\* license of another key
C18_Witness ==
  /\ adminReq # Null /\ adminReq.op = "deactivate" /\ adminResp.status = 200
  /\ Len(licenses) = 2
  /\ \E i \in Ids :
       /\ licenses[i].licenseKey = adminReq.key
       /\ ~licenses[i].isActive
       /\ Len(licenses[i].deviceActivations) = 1
       /\ licenses[i].currentActivations = 1
       /\ \E j \in Ids : j # i /\ licenses[j].isActive

\* ---- C19 holds of concurrent requests (Spec)
\* the activation list new begins with the records of old, in their order
\* and with their activationDate
Extends(old, new) ==
  /\ Len(new) >= Len(old)
  /\ \A i \in 1..Len(old) :
       /\ new[i].deviceId = old[i].deviceId
       /\ new[i].activationDate = old[i].activationDate

\* C19: no step removes a license, removes or reorders the activation records
\* of a license or changes the activationDate of one, and once an activate
\* request for a key and a device has been answered with success the license
\* of that key holds a record of that device in every later state, also
\* after the save() of a concurrent request and after a deactivation.
C19_ActivationsAppendOnly ==
  /\ [][/\ Len(licenses') >= Len(licenses)
        /\ \A i \in Ids :
             Extends(licenses[i].deviceActivations, licenses'[i].deviceActivations)]_vars
  /\ [](\A pr \in Pairs :
          hist[pr] = "bound"
          => /\ FindOneByKey(licenses, pr[1]) # 0
             /\ FindActivation(Stored(pr[1]).deviceActivations, pr[2]) # 0)

\* two activate requests ran concurrently, the second save() was applied after
\* the first, and the stored list holds the records of both devices in the
\* order of the saves
C19_Witness ==
  /\ \A p \in Procs :
       /\ Done(p, "activate") /\ resp[p].msg = "Activated" /\ seen[p].len = 0
  /\ \E i \in Ids :
       /\ Len(licenses[i].deviceActivations) = 2
       /\ licenses[i].deviceActivations[1].deviceId
            # licenses[i].deviceActivations[2].deviceId
       /\ licenses[i].deviceActivations[1].activationDate
            < licenses[i].deviceActivations[2].activationDate

\* ---- C20: the admin requests under any Authorization header (AuthSpec)
\* C20: an admin request (create license, deactivate license, list licenses,
\* usage stats) whose Authorization header is not exactly "Bearer " followed
\* by the admin secret is answered 401 and leaves the licenses and the usage
\* log as they were; only a request with exactly that header gets another
\* answer.
C20_AdminOnlyWithSecret ==
  [][AdminArrives
     => /\ adminReq'.auth # Str(BearerPrefix \o AdminToken)
             => /\ adminResp'.status = 401
                /\ licenses' = licenses
                /\ usage' = usage
        /\ adminReq'.auth = Str(BearerPrefix \o AdminToken)
             => adminResp'.status # 401]_vars

\* a deactivate-license under a token that the secret is a prefix of was
\* answered 401 and the license is still active, beside a usage event
C20_Witness ==
  /\ adminReq # Null /\ adminReq.op = "deactivate"
  /\ adminReq.auth = Str(BearerPrefix \o AdminToken \o <<"x">>)
  /\ adminResp.status = 401
  /\ FindOneActive(licenses, adminReq.key) # 0
  /\ usage # <<>>

\* ---- C21: the expiry date on the calendar (DateSpec)
\* the months from year 0 to the month of a date
MonthIndex(date) == 12 * date.y + date.m

ExpiryComputed == adminReq # Null /\ adminReq.op = "expiry"

\* C21 as stated: the expiry date lies in the month that is durationMonths
\* months after the month of creation, for every number sent as
\* durationMonths, and 12 months after it when none was sent.
C21_ExpiryIsMonthsLater ==
  ExpiryComputed
  => LET v == adminReq.durationMonths
         months == MonthIndex(adminResp.expiryDate) - MonthIndex(adminReq.created) IN
     /\ v = Undefined => months = 12
     /\ v.t = "number" => months = v.n

\* C21 amended: with n the number sent as durationMonths when that is not 0,
\* and 12 when none, 0 or a string without a leading integer was sent, the
\* expiry date has the creation's day of the month in the month n months
\* after the creation's when that month has such a day; when it has not, the
\* expiry date is in the month after it, on the day numbered by the excess.
C21_ExpiryIsSetMonth ==
  ExpiryComputed
  => LET v == adminReq.durationMonths
         c == adminReq.created
         e == adminResp.expiryDate
         n == IF v \in {Undefined, Num(0), Str(<<"x">>)} THEN 12
              ELSE IF v = Str(<<"3">>) THEN 3 ELSE v.n
         ty == (MonthIndex(c) + n) \div 12
         tm == (MonthIndex(c) + n) % 12 IN
     IF c.d <= DaysIn(ty, tm)
       THEN MonthIndex(e) = MonthIndex(c) + n /\ e.d = c.d
       ELSE MonthIndex(e) = MonthIndex(c) + n + 1 /\ e.d = c.d - DaysIn(ty, tm)

\* a license created on 31 January 2023 for one month expires on 3 March 2023
C21_Witness ==
  /\ ExpiryComputed
  /\ adminReq.created = CalDate(2023, 0, 31)
  /\ adminReq.durationMonths = Num(1)
  /\ adminResp.expiryDate = CalDate(2023, 2, 3)

\* ---- C22: the counts in the response of a first activation (Spec)
\* C22: a request answered with a new activation reports as activations_used
\* the number of activation records that the license holds once the
\* request's write is applied, and as activations_total the license's
\* maxActivations, also when other activate requests run concurrently.
C22_UsedIsRecordCount ==
  [][\A p \in Procs :
       (Completes(p) /\ resp'[p].msg = "Activated")
       => /\ resp'[p].used = Len(licenses'[snap[p].id].deviceActivations)
          /\ resp'[p].total = licenses'[snap[p].id].maxActivations]_vars

\* ---- C26
\* C26: in every reachable state the counter currentActivations of every
\* license equals the number of its activation records, whatever the
\* interleaving of the activate requests.
C26_CounterIsRecordCount ==
  \A i \in Ids :
    licenses[i].currentActivations = Len(licenses[i].deviceActivations)

\* ---- C27
\* C27: a license that is deactivated gains no activation record in any later
\* step, also not from an activate request that read it before the
\* deactivation and saves after it, and no step makes it active again.
C27_NoActivationAfterDeactivate ==
  [][\A i \in Ids :
       ~licenses[i].isActive
       => /\ Len(licenses'[i].deviceActivations) = Len(licenses[i].deviceActivations)
          /\ ~licenses'[i].isActive]_vars

\* ---- C23: what a successful request writes (Spec)
\* the fields of a license that no request of a device writes
Particulars(doc) ==
  <<doc.licenseKey, doc.customerEmail, doc.customerName, doc.purchaseDate,
    doc.expiryDate, doc.maxActivations, doc.isActive>>

\* the step of slot p left every record of old as it was, but for the
\* lastValidation of the record at position k
OnlyTouched(old, new, k) ==
  /\ Len(new) >= Len(old)
  /\ \A i \in 1..Len(old) :
       IF i = k THEN [new[i] EXCEPT !.lastValidation = old[i].lastValidation] = old[i]
       ELSE new[i] = old[i]

\* C23 as stated: the step that answers a validate or activate request with
\* valid: true leaves the request's time in the lastValidation of a record of
\* its device and changes no other record and no other field of the license
\* (the version key apart).
C23_WriteTouchesOnlyDeviceRecord ==
  [][\A p \in Procs :
       (Completes(p) /\ resp'[p].valid)
       => LET id == snap[p].id
              old == licenses[id]
              new == licenses'[id]
              k == FindActivation(snap[p].doc.deviceActivations, req[p].dev)
              at == IF k = 0 THEN Len(old.deviceActivations) + 1 ELSE k IN
          /\ Particulars(new) = Particulars(old)
          /\ new.currentActivations = old.currentActivations
          /\ OnlyTouched(old.deviceActivations, new.deviceActivations, k)
          /\ new.deviceActivations[at].deviceId = req[p].dev
          /\ new.deviceActivations[at].lastValidation = seen'[p].at]_vars

\* C23 amended: the step that answers a validate or activate request with valid: true
\* leaves the request's time in the lastValidation of a record of its device
\* (the record found, or the new record, which it appends), changes no other
\* record of that license, none of its key, customer, dates, maxActivations
\* and isActive, and no other license; for a device that had a record it
\* changes nothing else at all, and for a new device it also sets
\* currentActivations and the version key.
C23_SuccessStampsLastValidation ==
  [][\A p \in Procs :
       (Completes(p) /\ resp'[p].valid)
       => LET id == snap[p].id
              old == licenses[id]
              new == licenses'[id]
              k == FindActivation(snap[p].doc.deviceActivations, req[p].dev)
              at == IF k = 0 THEN Len(old.deviceActivations) + 1 ELSE k IN
          /\ Len(licenses') = Len(licenses)
          /\ \A j \in Ids : j # id => licenses'[j] = licenses[j]
          /\ Particulars(new) = Particulars(old)
          /\ OnlyTouched(old.deviceActivations, new.deviceActivations, k)
          /\ Len(new.deviceActivations) = Len(old.deviceActivations)
                                            + (IF k = 0 THEN 1 ELSE 0)
          /\ new.deviceActivations[at].deviceId = req[p].dev
          /\ new.deviceActivations[at].lastValidation = seen'[p].at
          /\ k # 0 => new = [old EXCEPT
                               !.deviceActivations[k].lastValidation = seen'[p].at]]_vars

\* a validate was answered valid after time had passed since the activation,
\* on a license with records of two devices: the device's record carries the
\* time of the validate, the other device's that of its activation
C23_Witness ==
  \E p \in Procs :
    /\ Done(p, "validate") /\ resp[p].valid /\ seen[p].at > 0
    /\ LET acts == Stored(req[p].key).deviceActivations
           k == FindActivation(acts, req[p].dev) IN
       /\ Len(acts) = 2
       /\ acts[k].lastValidation = seen[p].at
       /\ acts[k].activationDate < seen[p].at
       /\ \E j \in 1..2 : j # k /\ acts[j].deviceId # req[p].dev
                          /\ acts[j].lastValidation < seen[p].at

\* ---- C24: concurrent validate requests (Spec)
\* slot q holds another validate request for the key and device of slot p's
RivalValidate(p, q) ==
  /\ q # p /\ pc[q] # "idle"
  /\ req[q].op = "validate"
  /\ req[q].key = req[p].key /\ req[q].dev = req[p].dev

\* C24: of two validate requests for the same device that are handled
\* concurrently, each one that found the license active and unexpired with a
\* record of the device, and to whose license no activation is added
\* meanwhile, is answered valid: true whatever the order of their reads and
\* saves, and its save() leaves its own time in the record's lastValidation:
\* the value that remains is that of the request that saved last.
C24_ConcurrentValidatesBothValid ==
  [][\A p, q \in Procs :
       (Completes(p) /\ req[p].op = "validate" /\ RivalValidate(p, q)
          /\ UsableAtCheck(p)
          /\ FindActivation(snap[p].doc.deviceActivations, req[p].dev) # 0
          /\ Len(licenses[snap[p].id].deviceActivations)
               = Len(snap[p].doc.deviceActivations))
       => /\ resp'[p].valid
          /\ LET k == FindActivation(snap[p].doc.deviceActivations, req[p].dev) IN
             licenses'[snap[p].id].deviceActivations[k].lastValidation
               = seen'[p].at]_vars

\* two validate requests for one device were both answered valid: true; the
\* one that read the clock first saved last, and its time remains
C24_Witness ==
  \E p, q \in Procs :
    /\ Done(p, "validate") /\ Done(q, "validate")
    /\ req[p].key = req[q].key /\ req[p].dev = req[q].dev
    /\ resp[p].valid /\ resp[q].valid
    /\ seen[p].had /\ seen[q].had
    /\ seen[p].at < seen[q].at
    /\ LET acts == Stored(req[p].key).deviceActivations IN
       acts[FindActivation(acts, req[p].dev)].lastValidation = seen[p].at

\* ---- C25, C28: every operation, on licenses of two keys (OpsSpec)
\* the fields of a license that are set at its creation
Issued(doc) ==
  <<doc.licenseKey, doc.customerEmail, doc.customerName, doc.purchaseDate,
    doc.expiryDate, doc.maxActivations>>

\* C25: no step of a validate, activate, deactivate, record-usage or
\* create-license request changes the key, customerEmail, customerName,
\* purchaseDate, expiryDate or maxActivations of a stored license.
C25_IssuedFieldsImmutable ==
  [][/\ Len(licenses') >= Len(licenses)
     /\ \A i \in Ids : Issued(licenses'[i]) = Issued(licenses[i])]_vars

\* a license that has an activation record, beside a license created after
\* it and a usage event
C25_Witness ==
  /\ Len(licenses) = 2
  /\ Len(licenses[1].deviceActivations) = 1
  /\ licenses[2].purchaseDate > licenses[1].purchaseDate
  /\ usage # <<>>

\* C28: no step removes a license from the store or gives a stored license
\* another key, and no step makes a license with isActive = false active
\* again, whatever the sequence of create, activate, validate, deactivate and
\* record-usage requests.
C28_RevocationIsFinal ==
  [][/\ Len(licenses') >= Len(licenses)
     /\ \A i \in Ids :
          /\ licenses'[i].licenseKey = licenses[i].licenseKey
          /\ ~licenses[i].isActive => ~licenses'[i].isActive]_vars

\* a license was deactivated, a license of another key was created, and a
\* later request for the deactivated one was answered not found
C28_Witness ==
  /\ Len(licenses) = 2
  /\ ~licenses[1].isActive /\ licenses[2].isActive
  /\ \E p \in Procs :
       /\ pc[p] = "done" /\ seen[p].revoked
       /\ req[p].key = licenses[1].licenseKey
       /\ ~resp[p].valid

\* ---- C29: refused requests write nothing (Spec)
\* C29: a validate or activate request that is answered valid: false with a
\* domain outcome is answered by its checks, without a save(): neither the
\* step that answers it nor any earlier step of the request changes a
\* license.
C29_RefusalWritesNothing ==
  [][\A p \in Procs :
       /\ (Completes(p) /\ resp'[p].msg \in DomainMsgs)
            => /\ ~resp'[p].valid
               /\ pc[p] = "check"
               /\ licenses' = licenses
       /\ (Steps(p) /\ pc[p] \in {"idle", "find", "check"})
            => licenses' = licenses]_vars

\* a request for a device with a record was answered Expired, another for a
\* new device was answered LimitReached, and the record still carries the
\* time of its activation
C29_Witness ==
  \E p, q \in Procs :
    /\ pc[p] = "done" /\ resp[p].msg = "Expired" /\ seen[p].had
    /\ pc[q] = "done" /\ resp[q].msg = "LimitReached"
    /\ LET acts == Stored(req[p].key).deviceActivations IN
       /\ Len(acts) = 1
       /\ acts[1].lastValidation = acts[1].activationDate

\* ---- C30: a client without the secret (PageSpec)
\* C30: the response to a request for a page is the same whatever the value
\* of the admin secret, and a client that starts without the secret does not
\* get a license created or deactivated: the store, empty at the start,
\* stays empty.
C30_SecretNotDisclosed ==
  /\ (adminReq # Null /\ adminReq.op = "page")
       => adminResp = PageOf(adminReq.path, OtherToken)
  /\ licenses = <<>>

====
